---------------------------- MODULE Spec2Model ----------------------------
(***************************************************************************)
(* Model of packages/wyze-cameras/server/wyze_server.py: the process-wide  *)
(* credential (_creds), the token file, the camera cache (_cameras,        *)
(* _cameras_ts), the startup code (__main__), the vendor operations with   *)
(* their refresh-and-retry handshake (_validate, _refresh_token) and the   *)
(* Flask routes that use them.                                             *)
(*                                                                         *)
(* A vendor request is sent in one step and answered in a later step; the  *)
(* answer is any of the response codes, so every sequence of vendor        *)
(* responses is explored.  Process "main" runs __main__; the workers handle *)
(* HTTP requests once __main__ has reached app.run.  Spec handles one      *)
(* request at a time; SpecConcurrent interleaves the steps of two workers. *)
(***************************************************************************)
EXTENDS Integers, Sequences, FiniteSets, TLC

\* ------------------------------------------------------------------ bounds

\* Depth of nested _validate -> _refresh_token calls at which the interpreter
\* raises RecursionError (stands for the interpreter's recursion limit).
MaxRecursion == 2

\* The number of the last token pair: the persisted pair is pair 1, the vendor
\* issues the pairs 2..MaxTok (login and refresh answers).
MaxTok == 3

\* Number of clock advances.
MaxTicks == 2

\* ------------------------------------------------------- program constants

CACHE_TTL == 120

\* time.time() at process start: epoch seconds, never below CACHE_TTL.
StartTime == CACHE_TTL

\* Amounts by which the clock advances between two steps.
TickSteps == {60}

MaxTime == StartTime + MaxTicks * 60

\* The codes a vendor response carries, str(data.get("code", ...)): success,
\* expiry, and "500" for every code that is neither.  The second success value
\* "0" takes the same branch of _validate as "1".
Codes == {"1", "2001", "500"}

Success == {"1", "0"}

PhoneIds == {1, 2}

Payloads == {"p1", "p2"}

None == <<>>

Some(x) == <<x>>

Main == "main"

Workers == {"w1", "w2"}

Procs == {Main} \cup Workers

\* ------------------------------------------------------------ device lists

WordChars == {"F", "f", "d", "A", "B", "a", "b", "e'"}

AsciiChars == {"F", "f", "d", "A", "B", "a", "b", " ", "!", "-", "+"}

Lower(c) == CASE c = "F" -> "f" [] c = "A" -> "a" [] c = "B" -> "b" [] OTHER -> c

RECURSIVE LStrip(_)
LStrip(s) == IF s # <<>> /\ Head(s) = " " THEN LStrip(Tail(s)) ELSE s

RECURSIVE RStrip(_)
RStrip(s) == IF s # <<>> /\ s[Len(s)] = " " THEN RStrip(SubSeq(s, 1, Len(s) - 1)) ELSE s

Strip(s) == RStrip(LStrip(s))

SpaceToHyphen(c) == IF c = " " THEN "-" ELSE c

KeepUri(c) == c \in WordChars \cup {"-", "+"}

IsAscii(c) == c \in AsciiChars

\* _name_uri: nickname-or-mac, stripped, spaces to hyphens, characters outside
\* [-\w+] removed, lowercased, non-ASCII dropped.  Strings are sequences of
\* characters; "e'" is a non-ASCII word character.
name_uri(nickname, mac) ==
    LET name == IF nickname # <<>> THEN nickname ELSE mac
        bare == Strip(name)
        hyph == [i \in 1..Len(bare) |-> SpaceToHyphen(bare[i])]
        kept == SelectSeq(hyph, KeepUri)
        low  == [i \in 1..Len(kept) |-> Lower(kept[i])]
    IN  SelectSeq(low, IsAscii)

CamFront ==
    [product_type |-> "Camera", mac |-> <<"A">>, product_model |-> "WYZEC1",
     nickname |-> <<"F", " ", "d", "!">>, thumbnails_url |-> "t1"]

CamDup ==
    [product_type |-> "Camera", mac |-> <<"B">>, product_model |-> "HL_PAN2",
     nickname |-> <<" ", "f", "-", "d", "e'">>, thumbnails_url |-> ""]

Plug ==
    [product_type |-> "Plug", mac |-> <<"a">>, product_model |-> "WLPP1",
     nickname |-> <<"d">>, thumbnails_url |-> ""]

CamNoMac ==
    [product_type |-> "Camera", mac |-> <<>>, product_model |-> "WYZEC1",
     nickname |-> <<"d">>, thumbnails_url |-> "t1"]

CamNoModel ==
    [product_type |-> "Camera", mac |-> <<"b">>, product_model |-> "",
     nickname |-> <<"d">>, thumbnails_url |-> "t1"]

\* The device_list values the vendor may answer a listing call with.
VendorLists ==
    { <<>>,
      <<CamFront>>,
      <<Plug, CamDup, CamNoMac, CamFront, CamNoModel>> }

\* The name_uri values requests ask for; <<"d">> is the slug of no camera.
Slugs == { <<"f", "-", "d">>, <<"d">> }

\* The check of the model code left out.
IsCameraWithMac(dev) ==
    /\ dev.product_type = "Camera"
    /\ dev.mac # <<>>

\* fetch_cameras, lines 178-183: the entries that are kept.
IsCamera(dev) ==
    /\ dev.product_type = "Camera"
    /\ dev.mac # <<>>
    /\ dev.product_model # ""

\* fetch_cameras, lines 189-201: the record built for a kept entry.
CameraEntry(dev) ==
    [mac |-> dev.mac,
     name_uri |-> name_uri(dev.nickname, dev.mac),
     model |-> dev.product_model,
     thumbnail |-> dev.thumbnails_url]

\* fetch_cameras, lines 176-201: filter and normalise, in the vendor's order.
Normalize(device_list) ==
    LET kept == SelectSeq(device_list, IsCamera)
    IN  [i \in 1..Len(kept) |-> CameraEntry(kept[i])]

\* The lists fetch_cameras can build from the vendor's answers.
NormalizedLists == {Normalize(dl) : dl \in VendorLists}

\* --------------------------------------------------------------- variables

VARIABLES
    creds,        \* _creds: None or Some([access_token, refresh_token, phone_id])
    token_file,   \* TOKEN_FILE: [kind: "missing" | "corrupt" | "json", data]
    cameras,      \* _cameras
    cameras_ts,   \* _cameras_ts
    clock,        \* time.time()
    next_tok,     \* vendor side: the next token pair it issues
    proc          \* per process: the position and locals of the running code

vars == <<creds, token_file, cameras, cameras_ts, clock, next_tok, proc>>

NoRes == [kind |-> "none", val |-> <<>>]

Idle ==
    [route |-> "idle", slug |-> <<>>, pc |-> "idle", op |-> "none",
     attempt |-> 0, depth |-> 0, log |-> <<>>, now |-> 0, cam |-> None,
     res |-> NoRes, status |-> 0, raw |-> None, new_rt |-> 0,
     phone_id |-> 0, pre_cams |-> <<>>, pre_ts |-> 0, req_ts |-> 0,
     forced |-> FALSE, images |-> 0, calls |-> 0, scanned |-> <<>>]

PersistedCreds == [access_token |-> 1, refresh_token |-> 1, phone_id |-> 1]

\* State after the module is loaded: no credential, empty cache, and a token
\* file that is missing, left by an earlier run, holding the JSON null, or
\* unreadable.
Init ==
    /\ creds = None
    /\ token_file \in { [kind |-> "missing", data |-> None],
                        [kind |-> "json", data |-> Some(PersistedCreds)],
                        [kind |-> "json", data |-> None],
                        [kind |-> "corrupt", data |-> None] }
    /\ cameras = <<>>
    /\ cameras_ts = 0
    /\ clock = StartTime
    /\ next_tok = 2
    /\ proc = [p \in Procs |->
                 IF p = Main THEN [Idle EXCEPT !.route = "main", !.pc = "load"]
                 ELSE Idle]

\* ------------------------------------------------------- the vendor calls

\* The check of the other codes left out.
ValidateLenient(code) == IF code = "2001" THEN "refresh" ELSE "return"

\* Every code that is not a success treated as the expiry code.
ValidateRefreshing(code) == IF code \notin Success THEN "refresh" ELSE "return"

\* _validate, lines 99-106: what a response code makes the caller do.
Validate(code) ==
    IF code = "2001" THEN "refresh"
    ELSE IF code \notin Success THEN "raise"
    ELSE "return"

\* A request as the operation's log keeps it: the kind of endpoint, the access
\* token it carries, the code of its answer, and the access token a refresh
\* answer carries (0: none).
Request(kind, tok) == [req |-> kind, tok |-> tok, code |-> "pending", ans |-> 0]

Answered(log, code) == [log EXCEPT ![Len(log)].code = code]

\* _validate lines 104-105: the message of the exception carries the code.
ApiError(code) == "Wyze API error: " \o code

\* An exception that no handler of the operation catches: the operation ends
\* with it.
Propagate(r, exc) ==
    [r EXCEPT !.pc = "ret", !.res = [kind |-> "err", val |-> <<exc>>], !.depth = 0]

\* The except block left out: TokenRefreshed leaves the operation.
RaiseWithoutRetry(r) == Propagate(r, "TokenRefreshed")

\* The try/except TokenRefreshed of each vendor operation (lines 163-174,
\* 214-220, 229-235, 241-247, 255-267): the exception raised inside the try
\* block leads to the except block, the one raised inside the except block
\* leaves the operation.
RaiseTokenRefreshed(r) ==
    IF r.attempt = 1
    THEN [r EXCEPT !.pc = "retry", !.attempt = 2, !.depth = 0]
    ELSE Propagate(r, "TokenRefreshed")

\* _validate line 101 calling _refresh_token, lines 140-142: the refresh request
\* is built from the current credential and sent.
EnterRefresh(r) ==
    IF r.depth >= MaxRecursion
    THEN Propagate(r, "RecursionError")
    ELSE [r EXCEPT !.pc = "wait_refresh", !.depth = @ + 1,
                   !.log = Append(@, Request("refresh", creds[1].access_token))]

\* The access token a request carries: _payload line 92, and the Bearer header
\* of lines 254 and 262.
AccessToken(p) == creds[1].access_token

\* The comparison of the age turned around.
CacheFreshInverted(now) == cameras # <<>> /\ (now - cameras_ts) > CACHE_TTL

\* fetch_cameras line 160: the cached list is served.
CacheFresh(now) == cameras # <<>> /\ (now - cameras_ts) < CACHE_TTL

\* The write left out.
SaveNothing == token_file' = token_file

\* _save_tokens, lines 113-114: the file holds the credential as JSON.
SaveTokens == token_file' = [kind |-> "json", data |-> creds']

\* ---------------------------------------------------------------- __main__

\* Lines 424 and 117-122: _load_tokens.
MainLoadTokens ==
    /\ proc[Main].pc = "load"
    /\ \/ /\ token_file.kind = "missing"
          /\ proc' = [proc EXCEPT ![Main].pc = "check_creds"]
          /\ UNCHANGED creds
       \/ /\ token_file.kind = "json"
          /\ creds' = token_file.data
          /\ proc' = [proc EXCEPT ![Main].pc = "call_fetch"]
       \/ /\ token_file.kind = "corrupt"
          /\ proc' = [proc EXCEPT ![Main].pc = "crashed"]
          /\ UNCHANGED creds
    /\ UNCHANGED <<token_file, cameras, cameras_ts, clock, next_tok>>

\* Lines 426-431 (after the first fetch_cameras) and 439 (after the second).
MainAfterFetch ==
    /\ proc[Main].pc = "ret"
    /\ \/ /\ proc[Main].route = "main"
          /\ creds' = IF proc[Main].res.kind = "err" THEN None ELSE creds
          /\ proc' = [proc EXCEPT ![Main] =
                        [Idle EXCEPT !.route = "main", !.pc = "check_creds"]]
       \/ /\ proc[Main].route = "main_login"
          /\ proc' = [proc EXCEPT ![Main] =
                        [Idle EXCEPT !.route = "main",
                                     !.pc = IF proc[Main].res.kind = "err"
                                            THEN "crashed" ELSE "serving"]]
          /\ UNCHANGED creds
    /\ UNCHANGED <<token_file, cameras, cameras_ts, clock, next_tok>>

\* Lines 433-438 and 125-130: with no credential, exit when the environment
\* is incomplete, else wyze_login draws a phone_id and sends the login request.
MainCheckCreds ==
    /\ proc[Main].pc = "check_creds"
    /\ \/ /\ creds # None
          /\ proc' = [proc EXCEPT ![Main] =
                        [Idle EXCEPT !.route = "main", !.pc = "serving"]]
       \/ /\ creds = None
          /\ proc' = [proc EXCEPT ![Main].pc = "exited"]
       \/ /\ creds = None
          /\ \E ph \in PhoneIds :
                proc' = [proc EXCEPT ![Main].pc = "wait_login",
                                     ![Main].op = "wyze_login",
                                     ![Main].phone_id = ph]
    /\ UNCHANGED <<creds, token_file, cameras, cameras_ts, clock, next_tok>>

\* The credential wyze_login stores, lines 131-133.
LoginCreds(tok, phone_id) ==
    [access_token |-> tok, refresh_token |-> tok, phone_id |-> phone_id]

\* Lines 131-135: the login response.  The expiry code makes _validate call
\* _refresh_token, whose _payload() subscripts the absent credential.
MainLoginResp ==
    /\ proc[Main].pc = "wait_login"
    /\ \E code \in Codes :
        \/ /\ Validate(code) = "return"
           /\ next_tok <= MaxTok
           /\ creds' = Some(LoginCreds(next_tok, proc[Main].phone_id))
           /\ SaveTokens
           /\ next_tok' = next_tok + 1
           /\ proc' = [proc EXCEPT ![Main] =
                         [Idle EXCEPT !.route = "main_login", !.pc = "call_fetch"]]
        \/ /\ Validate(code) # "return"
           /\ proc' = [proc EXCEPT ![Main].pc = "crashed"]
           /\ UNCHANGED <<creds, token_file, next_tok>>
    /\ UNCHANGED <<cameras, cameras_ts, clock>>

\* ----------------------------------------------------------- fetch_cameras

\* A single-flight guard: the listing request waits while another process has
\* one in flight.
FetchCamerasSingleFlight(p) ==
    LET r == [proc[p] EXCEPT !.op = "fetch_cameras", !.attempt = 1, !.depth = 0,
                             !.log = <<>>, !.raw = None, !.res = NoRes,
                             !.calls = @ + Len(proc[p].log),
                             !.pre_cams = cameras, !.pre_ts = cameras_ts]
    IN
    /\ proc[p].pc = "call_fetch"
    /\ (creds # None /\ ~CacheFresh(clock)) =>
          \A q \in Procs \ {p} :
              ~(proc[q].op = "fetch_cameras" /\ proc[q].pc = "wait")
    /\ proc' = [proc EXCEPT ![p] =
          IF creds = None
          THEN [r EXCEPT !.pc = "ret", !.res = [kind |-> "ok", val |-> <<>>]]
          ELSE IF CacheFresh(clock)
          THEN [r EXCEPT !.pc = "ret", !.now = clock,
                         !.res = [kind |-> "ok", val |-> cameras]]
          ELSE [r EXCEPT !.pc = "wait", !.now = clock,
                         !.log = <<Request("orig", AccessToken(p))>>]]
    /\ UNCHANGED <<creds, token_file, cameras, cameras_ts, clock, next_tok>>

\* Lines 155-167: no credential, a fresh cache, or the listing request.
FetchCameras(p) ==
    LET r == [proc[p] EXCEPT !.op = "fetch_cameras", !.attempt = 1, !.depth = 0,
                             !.log = <<>>, !.raw = None, !.res = NoRes,
                             !.calls = @ + Len(proc[p].log),
                             !.pre_cams = cameras, !.pre_ts = cameras_ts]
    IN
    /\ proc[p].pc = "call_fetch"
    /\ proc' = [proc EXCEPT ![p] =
          IF creds = None
          THEN [r EXCEPT !.pc = "ret", !.res = [kind |-> "ok", val |-> <<>>]]
          ELSE IF CacheFresh(clock)
          THEN [r EXCEPT !.pc = "ret", !.now = clock,
                         !.res = [kind |-> "ok", val |-> cameras]]
          ELSE [r EXCEPT !.pc = "wait", !.now = clock,
                         !.log = <<Request("orig", AccessToken(p))>>]]
    /\ UNCHANGED <<creds, token_file, cameras, cameras_ts, clock, next_tok>>

\* The time read when the list has arrived.
FetchedAtReturn(r) == clock

\* fetch_cameras lines 159 and 204: _cameras_ts is the time read on entry.
FetchedAt(r) == r.now

\* The response to an operation's request (first or retried) goes through
\* _validate; a success is turned into the operation's result: lines 176-205
\* for fetch_cameras, the return of lines 216, 220, 231, 235, 243, 247 and
\* 283-287 for the device operations.
RecvResponse(p) ==
    /\ proc[p].pc = "wait"
    /\ \E code \in Codes :
        LET r == [proc[p] EXCEPT !.log = Answered(@, code)] IN
        \/ /\ Validate(code) = "return"
           /\ r.op = "fetch_cameras"
           /\ \E dl \in VendorLists :
                /\ cameras' = Normalize(dl)
                /\ cameras_ts' = FetchedAt(r)
                /\ proc' = [proc EXCEPT ![p] =
                      [r EXCEPT !.pc = "ret", !.raw = Some(dl),
                                !.res = [kind |-> "ok", val |-> Normalize(dl)]]]
        \/ /\ Validate(code) = "return"
           /\ r.op # "fetch_cameras"
           /\ \E pl \in Payloads :
                proc' = [proc EXCEPT ![p] =
                      [r EXCEPT !.pc = "ret", !.raw = Some(pl),
                                !.res = [kind |-> "ok", val |-> <<pl>>]]]
           /\ UNCHANGED <<cameras, cameras_ts>>
        \/ /\ Validate(code) = "raise"
           /\ proc' = [proc EXCEPT ![p] = Propagate(r, ApiError(code))]
           /\ UNCHANGED <<cameras, cameras_ts>>
        \/ /\ Validate(code) = "refresh"
           /\ proc' = [proc EXCEPT ![p] = EnterRefresh(r)]
           /\ UNCHANGED <<cameras, cameras_ts>>
    /\ UNCHANGED <<creds, token_file, clock, next_tok>>

\* The request of the try block sent again as it was built.
StaleRetryToken(p) == proc[p].log[1].tok

\* The access token of the re-issued request: _payload() is called again in
\* lines 172, 218, 233, 245, and line 262 reads _creds again.
RetryToken(p) == AccessToken(p)

\* The except TokenRefreshed block: the request is built again from the
\* current credential and sent again (lines 170-173, 218-219, 233-234,
\* 245-246, 262-266).
Retry(p) ==
    /\ proc[p].pc = "retry"
    /\ proc' = [proc EXCEPT ![p].pc = "wait",
                            ![p].log = Append(@, Request("orig", RetryToken(p)))]
    /\ UNCHANGED <<creds, token_file, cameras, cameras_ts, clock, next_tok>>

\* ---------------------------------------------------------- _refresh_token

\* The token pairs a successful refresh response may carry; 0 stands for a
\* field the response does not have (data.get falls back to the stored token).
RefreshAnswers ==
    IF next_tok <= MaxTok
    THEN { <<next_tok, next_tok>>, <<0, 0>> }
    ELSE { <<0, 0>> }

\* Lines 143-144: the refresh response goes through _validate; on success the
\* access token is stored.
RecvRefresh(p) ==
    /\ proc[p].pc = "wait_refresh"
    /\ \E code \in Codes :
        LET r == [proc[p] EXCEPT !.log = Answered(@, code)] IN
        \/ /\ Validate(code) = "return"
           /\ \E ans \in RefreshAnswers :
                /\ creds' = [creds EXCEPT ![1].access_token =
                                IF ans[1] = 0 THEN @ ELSE ans[1]]
                /\ next_tok' = IF ans = <<0, 0>> THEN next_tok ELSE next_tok + 1
                /\ proc' = [proc EXCEPT ![p] =
                      [r EXCEPT !.pc = "set_refresh_token", !.new_rt = ans[2],
                                !.log[Len(r.log)].ans = ans[1]]]
        \/ /\ Validate(code) = "raise"
           /\ proc' = [proc EXCEPT ![p] = Propagate(r, ApiError(code))]
           /\ UNCHANGED <<creds, next_tok>>
        \/ /\ Validate(code) = "refresh"
           /\ proc' = [proc EXCEPT ![p] = EnterRefresh(r)]
           /\ UNCHANGED <<creds, next_tok>>
    /\ UNCHANGED <<token_file, cameras, cameras_ts, clock>>

\* Line 145.
SetRefreshToken(p) ==
    /\ proc[p].pc = "set_refresh_token"
    /\ creds' = [creds EXCEPT ![1].refresh_token =
                    IF proc[p].new_rt = 0 THEN @ ELSE proc[p].new_rt]
    /\ proc' = [proc EXCEPT ![p].pc = "save_tokens", ![p].new_rt = 0]
    /\ UNCHANGED <<token_file, cameras, cameras_ts, clock, next_tok>>

\* Line 146, then _validate line 102 raises TokenRefreshed.
RefreshSave(p) ==
    /\ proc[p].pc = "save_tokens"
    /\ creds' = creds
    /\ SaveTokens
    /\ proc' = [proc EXCEPT ![p] = RaiseTokenRefreshed(proc[p])]
    /\ UNCHANGED <<cameras, cameras_ts, clock, next_tok>>

\* ------------------------------------------------------------------ routes

Serving == proc[Main].pc = "serving"

Routes == {"api_cameras", "api_camera_detail", "api_camera_info", "run_action",
           "set_property", "api_refresh", "api_signaling", "api_thumbnail"}

\* The routes that take a name_uri.
DeviceRoutes == Routes \ {"api_cameras", "api_refresh"}

\* The vendor operation a device route calls once the camera is found
\* (lines 324, 344, 354, 375).
DeviceOp(route) ==
    CASE route = "api_camera_info" -> "get_device_info"
      [] route = "run_action"      -> "run_action"
      [] route = "set_property"    -> "set_property"
      [] route = "api_signaling"   -> "get_webrtc_signaling"
      [] OTHER                     -> "none"

\* A request arrives and Flask calls the route's function.
StartRequest(p, route, slug) ==
    /\ Serving
    /\ proc[p].pc = "idle"
    /\ proc' = [proc EXCEPT ![p] =
          [Idle EXCEPT !.route = route, !.slug = slug, !.req_ts = cameras_ts,
                       !.pc = IF route = "api_refresh" THEN "invalidate"
                              ELSE "call_fetch"]]
    /\ UNCHANGED <<creds, token_file, cameras, cameras_ts, clock, next_tok>>

\* The route goes on to fetch_cameras without resetting _cameras_ts.
InvalidateNothing(p) ==
    /\ proc[p].pc = "invalidate"
    /\ proc' = [proc EXCEPT ![p].pc = "call_fetch"]
    /\ UNCHANGED <<creds, token_file, cameras, cameras_ts, clock, next_tok>>

\* api_refresh line 363 and api_thumbnail line 397: _cameras_ts = 0.
Invalidate(p) ==
    /\ proc[p].pc = "invalidate"
    /\ cameras_ts' = 0
    /\ proc' = [proc EXCEPT ![p].pc = "call_fetch"]
    /\ UNCHANGED <<creds, token_file, cameras, clock, next_tok>>

Min(S) == CHOOSE x \in S : \A y \in S : x <= y

\* The first entry of the list, whatever its name_uri.
FirstEntry(cams, slug) == IF cams = <<>> THEN None ELSE Some(cams[1])

\* The scan going on to the end of the list: the last entry with the name_uri.
LastMatch(cams, slug) ==
    LET hits == {i \in 1..Len(cams) : cams[i].name_uri = slug}
    IN  IF hits = {} THEN None
        ELSE Some(cams[CHOOSE i \in hits : \A j \in hits : j <= i])

\* _find_camera lines 298-301, and the next(...) of line 399: the first entry
\* of the list with the name_uri.
FirstMatch(cams, slug) ==
    LET hits == {i \in 1..Len(cams) : cams[i].name_uri = slug}
    IN  IF hits = {} THEN None ELSE Some(cams[Min(hits)])

\* The count of vendor requests the request has sent so far; calls counts the
\* ones of the operations that have returned, log holds the running one's.
Respond(r, status) ==
    [Idle EXCEPT !.route = r.route, !.slug = r.slug, !.pc = "done",
                 !.op = r.op, !.status = status, !.res = r.res, !.cam = r.cam,
                 !.calls = r.calls + Len(r.log), !.req_ts = r.req_ts,
                 !.now = r.now, !.pre_cams = r.pre_cams, !.pre_ts = r.pre_ts,
                 !.forced = r.forced, !.images = r.images,
                 !.scanned = r.scanned]

\* api_cameras lines 306-307 and api_refresh lines 364-365: the list is the
\* response; an exception of fetch_cameras is Flask's 500.
ListReturn(p) ==
    /\ proc[p].pc = "ret"
    /\ proc[p].route \in {"api_cameras", "api_refresh"}
    /\ proc' = [proc EXCEPT ![p] =
          Respond(proc[p], IF proc[p].res.kind = "err" THEN 500 ELSE 200)]
    /\ UNCHANGED <<creds, token_file, cameras, cameras_ts, clock, next_tok>>

\* The device routes after _find_camera's fetch_cameras has returned: lines
\* 312-315, 320-322, 332-334, 371-373, 385-387 and, after the forced refresh
\* of api_thumbnail, lines 399-400 and 407.
FindCamera(p) ==
    LET r == proc[p]
        cam == FirstMatch(r.res.val, r.slug)
        found == [r EXCEPT !.cam = cam, !.scanned = r.res.val]
        missed == [r EXCEPT !.cam = None, !.scanned = r.res.val]
    IN
    /\ r.pc = "ret"
    /\ r.op = "fetch_cameras"
    /\ r.route \in DeviceRoutes
    /\ proc' = [proc EXCEPT ![p] =
          IF r.res.kind = "err" THEN Respond(r, 500)
          ELSE IF cam = None THEN Respond(missed, 404)
          ELSE IF r.route = "api_camera_detail" THEN Respond(found, 200)
          ELSE IF r.route = "api_thumbnail"
               THEN IF cam[1].thumbnail = "" THEN Respond(found, 404)
                    ELSE [found EXCEPT !.pc = "image"]
          ELSE [found EXCEPT !.pc = "call_op"]]
    /\ UNCHANGED <<creds, token_file, cameras, cameras_ts, clock, next_tok>>

\* The first request of get_device_info, run_action, set_property and
\* get_webrtc_signaling: lines 209-215, 224-230, 239-242, 252-259.
CallDeviceOp(p) ==
    /\ proc[p].pc = "call_op"
    /\ proc' = [proc EXCEPT ![p] =
          [proc[p] EXCEPT !.op = DeviceOp(proc[p].route), !.pc = "wait",
                          !.attempt = 1, !.depth = 0, !.raw = None, !.res = NoRes,
                          !.now = 0, !.pre_cams = <<>>, !.pre_ts = 0,
                          !.calls = @ + Len(proc[p].log),
                          !.log = <<Request("orig", AccessToken(p))>>]]
    /\ UNCHANGED <<creds, token_file, cameras, cameras_ts, clock, next_tok>>

\* Lines 325-327, 345-347, 355-357, 376-380: the operation's result is the
\* response, its exception a 500.
DeviceReturn(p) ==
    /\ proc[p].pc = "ret"
    /\ proc[p].op \notin {"fetch_cameras", "none"}
    /\ proc' = [proc EXCEPT ![p] =
          Respond(proc[p], IF proc[p].res.kind = "err" THEN 500 ELSE 200)]
    /\ UNCHANGED <<creds, token_file, cameras, cameras_ts, clock, next_tok>>

\* Every failed image fetch leads to another forced refresh.
ThumbFetchAgain(p) ==
    LET r == [proc[p] EXCEPT !.images = @ + 1] IN
    /\ proc[p].pc = "image"
    /\ \E ok \in BOOLEAN :
         proc' = [proc EXCEPT ![p] =
            IF ok THEN Respond(r, 200)
            ELSE [r EXCEPT !.pc = "invalidate", !.forced = TRUE]]
    /\ UNCHANGED <<creds, token_file, cameras, cameras_ts, clock, next_tok>>

\* api_thumbnail lines 389-394 and 401-407: the image is fetched; a failure of
\* the first fetch leads to the forced refresh, a failure of the second to 404.
ThumbFetch(p) ==
    LET r == [proc[p] EXCEPT !.images = @ + 1] IN
    /\ proc[p].pc = "image"
    /\ \E ok \in BOOLEAN :
         proc' = [proc EXCEPT ![p] =
            IF ok THEN Respond(r, 200)
            ELSE IF r.forced THEN Respond(r, 404)
            ELSE [r EXCEPT !.pc = "invalidate", !.forced = TRUE]]
    /\ UNCHANGED <<creds, token_file, cameras, cameras_ts, clock, next_tok>>

\* The response is sent; the worker is free again.
Finish(p) ==
    /\ proc[p].pc = "done"
    /\ proc' = [proc EXCEPT ![p] = Idle]
    /\ UNCHANGED <<creds, token_file, cameras, cameras_ts, clock, next_tok>>

\* Where the processes are while time passes: waiting for a request or for
\* the vendor's answer to an operation's request.  The rest takes no time.
TickPoints == {"idle", "serving", "crashed", "exited", "wait", "wait_login"}

\* time.time() advances.
Tick ==
    /\ \E d \in TickSteps :
         /\ clock + d <= MaxTime
         /\ \A p \in Procs : proc[p].pc \in TickPoints
         /\ clock' = clock + d
    /\ UNCHANGED <<creds, token_file, cameras, cameras_ts, next_tok, proc>>

\* ----------------------------------------------------------- specification

\* One request at a time: worker "w1" handles every request.
Next ==
    \/ Tick
    \/ MainLoadTokens
    \/ MainAfterFetch
    \/ MainCheckCreds
    \/ MainLoginResp
    \/ \E route \in DeviceRoutes, slug \in Slugs : StartRequest("w1", route, slug)
    \/ \E route \in Routes \ DeviceRoutes : StartRequest("w1", route, <<>>)
    \/ \E p \in Procs : Invalidate(p)
    \/ \E p \in Procs : FetchCameras(p)
    \/ \E p \in Procs : RecvResponse(p)
    \/ \E p \in Procs : Retry(p)
    \/ \E p \in Procs : RecvRefresh(p)
    \/ \E p \in Procs : SetRefreshToken(p)
    \/ \E p \in Procs : RefreshSave(p)
    \/ \E p \in Procs : ListReturn(p)
    \/ \E p \in Procs : FindCamera(p)
    \/ \E p \in Procs : CallDeviceOp(p)
    \/ \E p \in Procs : DeviceReturn(p)
    \/ \E p \in Procs : ThumbFetch(p)
    \/ \E p \in Procs : Finish(p)

Spec == Init /\ [][Next]_vars

\* ---------------------------------------------- concurrent specification

\* The routes the two workers handle at the same time.
ConcurrentRoutes == {"api_cameras", "api_refresh"}

\* The server at app.run after a startup that loaded the persisted credential
\* and listed the devices (lines 424-428, 444): the credential is the file's,
\* the cache holds the startup's listing.
InitServing ==
    /\ creds = Some(PersistedCreds)
    /\ token_file = [kind |-> "json", data |-> Some(PersistedCreds)]
    /\ cameras \in NormalizedLists
    /\ cameras_ts = StartTime
    /\ clock = StartTime
    /\ next_tok = 2
    /\ proc = [p \in Procs |->
                 IF p = Main THEN [Idle EXCEPT !.route = "main", !.pc = "serving"]
                 ELSE Idle]

\* The code of the answer that process p receives in the step.
AnswerCode(p) == proc'[p].log[Len(proc[p].log)].code

\* The answers to a request: success, or expiry for the request of the try
\* block.
FirstAnswers(p) == IF proc[p].attempt = 1 THEN {"1", "2001"} ELSE {"1"}

\* Flask serves each request in a thread of its own (app.run, line 445): the
\* steps of the two workers interleave, every step one statement or one
\* vendor answer.  Each worker handles one request; the vendor answers the
\* first request of an operation with success or expiry, and the re-issued
\* request and the refresh request with success.
NextConcurrent ==
    \/ Tick
    \/ \E p \in Workers, route \in ConcurrentRoutes : StartRequest(p, route, <<>>)
    \/ \E p \in Workers : Invalidate(p)
    \/ \E p \in Workers : FetchCameras(p)
    \/ \E p \in Workers : RecvResponse(p) /\ AnswerCode(p) \in FirstAnswers(p)
    \/ \E p \in Workers : Retry(p)
    \/ \E p \in Workers : RecvRefresh(p) /\ AnswerCode(p) = "1"
    \/ \E p \in Workers : SetRefreshToken(p)
    \/ \E p \in Workers : RefreshSave(p)
    \/ \E p \in Workers : ListReturn(p)

SpecConcurrent == InitServing /\ [][NextConcurrent]_vars

\* ------------------------------------------------------------------ claims

\* The requests of the operation process p is in (or has just left).
Log(p) == proc[p].log

Count(log, kind) == Cardinality({i \in 1..Len(log) : log[i].req = kind})

Last(log) == log[Len(log)]

\* Process p is inside a vendor operation or at its return.
InOperation(p) ==
    proc[p].pc \in {"wait", "wait_refresh", "set_refresh_token", "save_tokens",
                    "retry", "ret"}

\* The position in the log of the re-issued original request, 0 when there
\* is none.
RetryIndex(log) ==
    LET origs == {i \in 2..Len(log) : log[i].req = "orig"}
    IN  IF origs = {} THEN 0 ELSE Min(origs)

\* No refresh request of the log is itself answered with the expiry code (the
\* case C3 is about).
NoExpiredRefresh(log) ==
    \A i \in 1..Len(log) : ~(log[i].req = "refresh" /\ log[i].code = "2001")

\* C1: every invocation of a vendor operation sends at most one refresh
\* request and at most two requests to the original endpoint, and when the
\* retried original call answers with the expiry code no further request is
\* sent and the operation ends with the error.  Stated for the invocations
\* whose refresh requests are not answered with the expiry code themselves.
C1_OneRefreshTwoCalls ==
    \A p \in Procs :
        LET log == Log(p)
            k == RetryIndex(log)
        IN  NoExpiredRefresh(log) =>
            /\ Count(log, "refresh") <= 1
            /\ Count(log, "orig") <= 2
            /\ (k # 0 /\ log[k].code = "2001") =>
                   /\ k = Len(log)
                   /\ proc[p].pc = "ret"
                   /\ proc[p].res.kind = "err"

C3_RefreshesBounded ==
    \A p \in Procs :
        LET log == Log(p) IN
        /\ \A i \in 1..Len(log) :
              (log[i].req = "refresh" /\ log[i].code = "2001") => i = Len(log)
        /\ proc[p].res # [kind |-> "err", val |-> <<"RecursionError">>]

\* The access token the last answered refresh of the log carried (0: none).
RefreshedToken(log) ==
    LET done == {i \in 1..Len(log) : log[i].req = "refresh" /\ log[i].code \in Success}
    IN  IF done = {} THEN 0 ELSE log[CHOOSE i \in done : \A j \in done : j <= i].ans

\* The re-issued request of process p is in flight.
RetryInFlight(p) ==
    /\ proc[p].pc = "wait"
    /\ proc[p].attempt = 2
    /\ Last(Log(p)).req = "orig"

\* C4 as claimed: the re-issued request carries the access token stored in
\* the credential after the refresh, which is the one the refresh response
\* returned and never the token the first request carried.
C4_RetryCarriesReturnedToken ==
    \A p \in Procs :
        RetryInFlight(p) =>
            /\ Last(Log(p)).tok = creds[1].access_token
            /\ Last(Log(p)).tok = RefreshedToken(Log(p))
            /\ Last(Log(p)).tok # Log(p)[1].tok

\* C4 as amended: the re-issued request carries the access token stored in
\* the credential after the refresh; when the refresh response carries an
\* access token it is that one and differs from the token of the first
\* request, and when it carries none the credential and the re-issued request
\* keep the token of the first request.
C4_RetryCarriesStoredToken ==
    \A p \in Procs :
        RetryInFlight(p) =>
            /\ Last(Log(p)).tok = creds[1].access_token
            /\ RefreshedToken(Log(p)) # 0 =>
                  /\ Last(Log(p)).tok = RefreshedToken(Log(p))
                  /\ Last(Log(p)).tok # Log(p)[1].tok
            /\ RefreshedToken(Log(p)) = 0 =>
                  Last(Log(p)).tok = Log(p)[1].tok

\* Witness of C4: the signaling call is re-issued with the token the refresh
\* response carried, another one than the first request's.
C4_Witness ==
    \E p \in Procs :
        /\ RetryInFlight(p)
        /\ proc[p].op = "get_webrtc_signaling"
        /\ RefreshedToken(Log(p)) # 0
        /\ Last(Log(p)).tok = RefreshedToken(Log(p))
        /\ Last(Log(p)).tok # Log(p)[1].tok

\* Process p is inside fetch_cameras or at its return.
InFetch(p) == proc[p].op = "fetch_cameras" /\ InOperation(p)

\* The cache that fetch_cameras found on entry was set by a list() that
\* returned (not invalidated since) and is younger than the TTL at the call.
YoungOnEntry(p) ==
    /\ proc[p].pre_ts # 0
    /\ proc[p].now - proc[p].pre_ts < CACHE_TTL

\* The call served the cache it found: no vendor request, the same list.
ServedFromCache(p) ==
    /\ proc[p].pc = "ret"
    /\ Log(p) = <<>>
    /\ proc[p].res = [kind |-> "ok", val |-> proc[p].pre_cams]
    /\ cameras = proc[p].pre_cams
    /\ cameras_ts = proc[p].pre_ts

\* C5 as claimed: with a credential, a list() made less than CACHE_TTL after
\* a list() that returned serves the same list and sends no vendor request,
\* whatever the first result was, the empty list included.
C5_YoungCacheServed ==
    \A p \in Procs :
        (InFetch(p) /\ creds # None /\ YoungOnEntry(p)) => ServedFromCache(p)

\* C5 as amended: the same, for every first result that holds at least one
\* camera; after a result of zero cameras the next list() sends the listing
\* request again.
C5_YoungNonEmptyCacheServed ==
    \A p \in Procs :
        (InFetch(p) /\ creds # None) =>
            /\ (YoungOnEntry(p) /\ proc[p].pre_cams # <<>>) => ServedFromCache(p)
            /\ proc[p].pre_cams = <<>> =>
                  /\ Len(Log(p)) >= 1
                  /\ Log(p)[1].req = "orig"

\* Witness of C5: a list() made 60 seconds after the list was fetched has
\* returned the cached cameras without a vendor request.
C5_Witness ==
    \E p \in Procs :
        /\ InFetch(p)
        /\ YoungOnEntry(p)
        /\ proc[p].now > proc[p].pre_ts
        /\ proc[p].pre_cams # <<>>
        /\ ServedFromCache(p)

\* C6: with a credential, a list() that finds the cache CACHE_TTL old or older
\* sends the listing request; when that request is answered with success it
\* is the only request, the cache is the normalised answer, _cameras_ts is the
\* time read by the call, and the call returns the new list.
C6_ExpiredCacheReplaced ==
    \A p \in Procs :
        LET r == proc[p] IN
        (InFetch(p) /\ creds # None /\ r.now - r.pre_ts >= CACHE_TTL) =>
            /\ Len(r.log) >= 1
            /\ r.log[1].req = "orig"
            /\ r.log[1].code \in Success =>
                  /\ Len(r.log) = 1
                  /\ r.pc = "ret"
                  /\ r.raw # None
                  /\ cameras = Normalize(r.raw[1])
                  /\ cameras_ts = r.now
                  /\ r.res = [kind |-> "ok", val |-> cameras]

\* Witness of C6: a cache of exactly CACHE_TTL seconds, holding cameras, has
\* been replaced by another list with one listing request.
C6_Witness ==
    \E p \in Procs :
        /\ InFetch(p)
        /\ proc[p].pc = "ret"
        /\ proc[p].pre_ts # 0
        /\ proc[p].now - proc[p].pre_ts = CACHE_TTL
        /\ proc[p].pre_cams # <<>>
        /\ Len(Log(p)) = 1
        /\ Log(p)[1].code \in Success
        /\ cameras # proc[p].pre_cams
        /\ cameras_ts = proc[p].now

\* The listing of process p has failed: it sent requests and the last one is
\* not a listing request answered with success.
ListingFailed(p) ==
    /\ InFetch(p)
    /\ proc[p].pc = "ret"
    /\ Log(p) # <<>>
    /\ ~(Last(Log(p)).req = "orig" /\ Last(Log(p)).code \in Success)

\* C7: when the listing of list() fails, the call ends with the error and not
\* with the stale list, the cache and _cameras_ts are what they were on entry,
\* and the cache is still not fresh, so that the next list() sends the listing
\* request again; the routes answer 500.
C7_FailedListKeepsCache ==
    \A p \in Procs :
        /\ ListingFailed(p) =>
              /\ proc[p].res.kind = "err"
              /\ cameras = proc[p].pre_cams
              /\ cameras_ts = proc[p].pre_ts
              /\ ~(cameras # <<>> /\ clock - cameras_ts < CACHE_TTL)
        /\ (proc[p].pc = "done" /\ proc[p].op = "fetch_cameras"
              /\ proc[p].res.kind = "err") => proc[p].status = 500

\* Witness of C7: the listing failed at its retry while an expired list of
\* cameras was cached.
C7_Witness ==
    \E p \in Procs :
        /\ ListingFailed(p)
        /\ Len(Log(p)) = 3
        /\ Log(p)[3].code = "500"
        /\ proc[p].pre_cams # <<>>
        /\ proc[p].pre_ts # 0
        /\ cameras = proc[p].pre_cams

\* C8: after an invalidation (api_refresh, or api_thumbnail after a failed
\* image fetch) the list() that follows finds _cameras_ts reset and, with a
\* credential, sends the listing request whatever the age of the entries;
\* api_refresh answers with the list of that request's answer.
C8_InvalidationForcesFetch ==
    \A p \in Procs :
        LET r == proc[p] IN
        /\ (InFetch(p) /\ creds # None /\ r.pre_ts = 0) =>
              /\ Len(r.log) >= 1
              /\ r.log[1].req = "orig"
        /\ (InFetch(p) /\ (r.route = "api_refresh" \/ r.forced)) => r.pre_ts = 0
        /\ (InFetch(p) /\ r.route = "api_refresh" /\ r.pc = "ret"
              /\ r.res.kind = "ok") =>
              /\ Last(r.log).req = "orig"
              /\ Last(r.log).code \in Success
              /\ r.res.val = Normalize(r.raw[1])
        /\ (r.pc = "done" /\ r.route = "api_refresh" /\ r.status = 200) =>
              /\ r.calls >= 1
              /\ r.res.val = cameras

\* Witness of C8: api_refresh, called while the cached cameras were younger
\* than the TTL, has fetched another list than the cached one.
C8_Witness ==
    \E p \in Procs :
        /\ InFetch(p)
        /\ proc[p].route = "api_refresh"
        /\ proc[p].pc = "ret"
        /\ proc[p].res.kind = "ok"
        /\ proc[p].req_ts # 0
        /\ proc[p].now - proc[p].req_ts < CACHE_TTL
        /\ proc[p].pre_cams # <<>>
        /\ proc[p].res.val # proc[p].pre_cams

\* The slug is the name_uri of no camera of any list the vendor answers.
Unknown(slug) ==
    \A list \in NormalizedLists :
        \A i \in 1..Len(list) : list[i].name_uri # slug

\* C9 as claimed: on every device route and in every state of the cache, a
\* request for a slug of no device is answered 404 and no vendor request is
\* sent while it is handled.
C9_UnknownSlugNoVendorCall ==
    \A p \in Procs :
        (proc[p].pc = "done" /\ proc[p].route \in DeviceRoutes
           /\ Unknown(proc[p].slug)) =>
            /\ proc[p].status = 404
            /\ proc[p].calls = 0

\* C9 as amended: such a request calls no device operation and fetches no
\* image; the only vendor requests are those of list(), none when the cache
\* is fresh; it is answered 404 when list() returns and 500 when list() fails.
C9_UnknownSlugOnlyLists ==
    \A p \in Procs :
        LET r == proc[p] IN
        (r.route \in DeviceRoutes /\ Unknown(r.slug)) =>
            /\ r.op \in {"none", "fetch_cameras"}
            /\ r.cam = None
            /\ r.images = 0
            /\ r.pc = "done" =>
                  /\ r.status = IF r.res.kind = "err" THEN 500 ELSE 404
                  /\ (r.pre_cams # <<>> /\ r.now - r.pre_ts < CACHE_TTL) =>
                        /\ r.calls = 0
                        /\ r.status = 404
                  /\ r.calls = 0 => r.status = 404

\* Witness of C9: api_camera_info for an unknown slug has been answered 404
\* after a listing request.
C9_Witness ==
    \E p \in Procs :
        /\ proc[p].pc = "done"
        /\ proc[p].route = "api_camera_info"
        /\ Unknown(proc[p].slug)
        /\ proc[p].status = 404
        /\ proc[p].calls >= 1

\* The phone_id of the install: the credential's, else the token file's, else 0.
KnownPhoneId ==
    IF creds # None THEN creds[1].phone_id
    ELSE IF token_file.kind = "json" /\ token_file.data # None
         THEN token_file.data[1].phone_id
    ELSE 0

\* C10: once a phone_id exists, in memory or in the token file, no step
\* changes it: not a token refresh, and not a startup that loads the
\* persisted tokens, finds them unusable and logs in again.
C10_PhoneIdNeverRegenerated ==
    [][KnownPhoneId # 0 => KnownPhoneId' = KnownPhoneId]_vars

\* A token refresh of process p is in progress: from the refresh request to
\* the _save_tokens that ends _refresh_token.
RefreshInProgress(p) ==
    proc[p].pc \in {"wait_refresh", "set_refresh_token", "save_tokens"}

\* wyze_login is in progress.
LoginInProgress == proc[Main].pc = "wait_login"

Quiescent == ~LoginInProgress /\ \A p \in Procs : ~RefreshInProgress(p)

\* The token file holds the JSON of the credential in memory.
Persisted == token_file = [kind |-> "json", data |-> creds]

\* C11: whenever no login and no refresh is in progress and a credential is
\* present in memory, the token file holds exactly that credential (access
\* token, refresh token and phone_id); and no step deletes the token file.
C11_CredentialPersisted ==
    /\ []((Quiescent /\ creds # None) => Persisted)
    /\ [][token_file.kind # "missing" => token_file'.kind # "missing"]_vars

\* Witness of C11: a refresh has ended with another access token than the
\* loaded one, and the token file holds the credential with it.
C11_Witness ==
    /\ Quiescent
    /\ creds # None
    /\ Persisted
    /\ \E p \in Procs :
          /\ proc[p].pc = "retry"
          /\ RefreshedToken(Log(p)) # 0
          /\ creds[1].access_token = RefreshedToken(Log(p))
          /\ creds[1].access_token # Log(p)[1].tok

\* C12: _load_tokens never raises: with a token file that is missing or cannot
\* be parsed, the step that loads it leaves the credential absent and startup
\* goes on to the check that leads to a fresh login.
C12_LoadNeverRaises ==
    [][(proc[Main].pc = "load" /\ token_file.kind \in {"missing", "corrupt"}) =>
           (proc'[Main].pc = "check_creds" /\ creds' = None)]_vars

\* A response code that is neither a success value nor the expiry code.
OtherCode(code) == code \notin Success \cup {"2001", "pending"}

\* C13: a response (to an operation's request or to a refresh request) whose
\* code is neither a success value nor the expiry code ends the operation with
\* the error that carries the code: it is the last request of the invocation
\* (no refresh request, no retry after it), and the step that receives it
\* changes neither the credential, nor the token file, nor the cache.
C13_OtherCodeFails ==
    /\ [](\A p \in Procs :
            \A i \in 1..Len(Log(p)) :
                OtherCode(Log(p)[i].code) =>
                    /\ i = Len(Log(p))
                    /\ proc[p].pc = "ret"
                    /\ proc[p].res = [kind |-> "err",
                                      val |-> <<ApiError(Log(p)[i].code)>>])
    /\ [][\A p \in Procs :
            (/\ Log(p) # <<>>
             /\ Last(Log(p)).code = "pending"
             /\ Len(proc'[p].log) = Len(Log(p))
             /\ OtherCode(Last(proc'[p].log).code)) =>
                 UNCHANGED <<creds, token_file, cameras, cameras_ts>>]_vars

\* Witness of C13: run_action has ended with the error of code 500 at its
\* first response, without any other request.
C13_Witness ==
    \E p \in Procs :
        /\ proc[p].op = "run_action"
        /\ proc[p].pc = "ret"
        /\ Len(Log(p)) = 1
        /\ Log(p)[1].code = "500"
        /\ proc[p].res = [kind |-> "err", val |-> <<"Wyze API error: 500">>]

\* Process p handles GET /thumb/<name_uri> and has fetched the image of the
\* camera it found at least once.
ThumbTried(p) == proc[p].route = "api_thumbnail" /\ proc[p].images >= 1

\* C14 as claimed: a thumbnail request for a known camera fetches the image at
\* most twice, and once the first fetch has been made the request ends with
\* the image (200) or with 404, also when the forced list refresh fails.
C14_ThumbnailFailureIs404 ==
    \A p \in Procs :
        ThumbTried(p) =>
            /\ proc[p].images <= 2
            /\ proc[p].pc = "done" => proc[p].status \in {200, 404}

\* C14 as amended: the first failed image fetch is followed by one
\* invalidation and one forced list(); a second image fetch is made only after
\* it, and no third; the request ends with 200 when a fetch delivers the image,
\* with 404 when the forced list() returns and the image still cannot be
\* delivered (no entry, no thumbnail, or the second fetch fails), and with 500
\* when the forced list() itself fails.
C14_ThumbnailOneForcedRefresh ==
    \A p \in Procs :
        LET r == proc[p] IN
        r.route = "api_thumbnail" =>
            /\ r.images <= 2
            /\ r.forced => r.images >= 1
            /\ r.pc = "invalidate" => (r.forced /\ r.images = 1)
            /\ r.pc = "image" => r.images = (IF r.forced THEN 1 ELSE 0)
            /\ r.images = 2 => (r.forced /\ r.pc = "done")
            /\ (r.pc = "done" /\ r.images >= 1) =>
                  /\ r.status \in {200, 404, 500}
                  /\ ~r.forced => (r.status = 200 /\ r.images = 1)
                  /\ r.forced => r.calls >= 1
                  /\ r.status = 500 <=> (r.forced /\ r.res.kind = "err")
                  /\ r.status = 500 => r.images = 1
                  /\ (r.forced /\ r.res.kind = "ok" /\ r.images = 1) => r.status = 404

\* Witness of C14: both image fetches of a thumbnail request have failed, with
\* the forced list() between them, and the request has ended with 404.
C14_Witness ==
    \E p \in Procs :
        /\ ThumbTried(p)
        /\ proc[p].pc = "done"
        /\ proc[p].forced
        /\ proc[p].images = 2
        /\ proc[p].calls >= 1
        /\ proc[p].status = 404

\* A vendor entry of product type Camera with a MAC address and a model code.
CompleteCamera(dev) ==
    /\ dev.product_type = "Camera"
    /\ dev.mac # <<>>
    /\ dev.product_model # ""

\* The list is made of the entries of the vendor's device_list that are
\* complete cameras, all of them, in the vendor's order.
KeptInOrder(list, device_list) ==
    LET keep == {j \in 1..Len(device_list) : CompleteCamera(device_list[j])}
    IN  /\ Len(list) = Cardinality(keep)
        /\ \E f \in [1..Len(list) -> keep] :
              /\ \A i \in 1..Len(list) : \A k \in 1..Len(list) :
                    i < k => f[i] < f[k]
              /\ \A i \in 1..Len(list) : list[i] = CameraEntry(device_list[f[i]])

\* The records of the complete cameras among the entries the vendor answers.
CompleteEntries ==
    UNION { {CameraEntry(dl[j]) : j \in {k \in 1..Len(dl) : CompleteCamera(dl[k])}} :
            dl \in VendorLists }

\* C15: in every reachable state every entry of _cameras has a MAC address and
\* a model code and is the record of a vendor entry of product type Camera
\* that has both; and the list a listing stores and returns holds exactly the
\* complete cameras of the vendor's answer, in the vendor's order.
C15_CacheHoldsCameras ==
    /\ \A i \in 1..Len(cameras) :
          /\ cameras[i].mac # <<>>
          /\ cameras[i].model # ""
          /\ cameras[i] \in CompleteEntries
    /\ \A p \in Procs :
          (InFetch(p) /\ proc[p].pc = "ret" /\ proc[p].raw # None) =>
              /\ KeptInOrder(proc[p].res.val, proc[p].raw[1])
              /\ cameras = proc[p].res.val

\* Witness of C15: a vendor answer of five entries, three of them not complete
\* cameras, has left the two cameras in the cache in the vendor's order.
C15_Witness ==
    \E p \in Procs :
        /\ InFetch(p)
        /\ proc[p].pc = "ret"
        /\ proc[p].raw # None
        /\ Len(proc[p].raw[1]) = 5
        /\ Len(cameras) = 2
        /\ cameras[1].mac = <<"B">>
        /\ cameras[2].mac = <<"A">>

\* The positions of the list whose entry has the name_uri.
Matches(list, slug) == {i \in 1..Len(list) : list[i].name_uri = slug}

\* C16: on every device route the camera the route works with is the entry at
\* the first position of the scanned list whose name_uri is the requested one
\* (with two such entries never the later one), from the lookup to the end of
\* the request and of the device operation called with it; and the lookup
\* finds no camera, and the route answers 404, exactly when no entry of the
\* list has the name_uri.
C16_FirstMatchWins ==
    \A p \in Procs :
        LET r == proc[p]
            hits == Matches(r.scanned, r.slug)
        IN  r.route \in DeviceRoutes =>
            /\ r.cam # None =>
                  /\ hits # {}
                  /\ \E k \in hits :
                        /\ \A j \in hits : k <= j
                        /\ r.cam[1] = r.scanned[k]
            /\ (r.pc = "done" /\ r.op = "fetch_cameras" /\ r.res.kind = "ok") =>
                  /\ r.scanned = r.res.val
                  /\ r.cam = None <=> hits = {}
                  /\ r.cam = None => r.status = 404
            /\ r.op \notin {"none", "fetch_cameras"} => r.cam # None

\* Witness of C16: the signaling call has returned for a request whose
\* name_uri two cached cameras share; the route works with the first of them.
C16_Witness ==
    \E p \in Procs :
        /\ proc[p].op = "get_webrtc_signaling"
        /\ proc[p].pc = "ret"
        /\ Cardinality(Matches(proc[p].scanned, proc[p].slug)) = 2
        /\ proc[p].cam = Some(proc[p].scanned[1])
        /\ proc[p].cam[1].mac = <<"B">>

\* A refresh request of the log has been answered with a code that is not a
\* success value.
FailedRefresh(log) ==
    \E i \in 1..Len(log) :
        log[i].req = "refresh" /\ log[i].code \notin Success \cup {"pending"}

\* C20: a refresh whose request is answered with a non-success code leaves the
\* credential in memory and the token file as they were: neither the step
\* that receives the answer nor any later step of the same invocation changes
\* the access token or the refresh token or writes the file.
C20_FailedRefreshChangesNothing ==
    [][\A p \in Procs :
          (/\ Log(p) # <<>>
           /\ Len(proc'[p].log) >= Len(Log(p))
           /\ FailedRefresh(proc'[p].log)) =>
              (creds' = creds /\ token_file' = token_file)]_vars

\* Process q has a listing request in flight.
ListingInFlight(q) == proc[q].op = "fetch_cameras" /\ proc[q].pc = "wait"

\* Process q has a refresh request in flight.
RefreshInFlight(q) == proc[q].pc = "wait_refresh"

\* C17: there is no single-flight guard.  Whenever a worker enters
\* fetch_cameras with a cache that is not fresh while the other worker's
\* listing request is in flight, its own listing request can be sent; and
\* whenever a worker awaits the answer to its first request while the other
\* worker's refresh request is in flight, the expiry answer makes it send a
\* refresh request of its own.
C17_NoSingleFlight ==
    \A p \in Workers : \A q \in Workers \ {p} :
        /\ (/\ proc[p].pc = "call_fetch"
            /\ creds # None
            /\ ~CacheFresh(clock)
            /\ ListingInFlight(q)) =>
               ENABLED (FetchCameras(p) /\ ListingInFlight(p)')
        /\ (/\ proc[p].pc = "wait"
            /\ proc[p].attempt = 1
            /\ RefreshInFlight(q)) =>
               ENABLED (RecvResponse(p) /\ RefreshInFlight(p)')

\* Witness of C17: both workers, handling GET /api at the same time, found
\* the same expired list of cameras, each sent a listing request with the same
\* access token, each was answered with the expiry code, and each has sent a
\* refresh request of its own.
C17_Witness ==
    /\ \A p \in Workers :
          /\ proc[p].route = "api_cameras"
          /\ proc[p].op = "fetch_cameras"
          /\ RefreshInFlight(p)
          /\ Len(Log(p)) = 2
          /\ Log(p)[1].req = "orig"
          /\ Log(p)[1].code = "2001"
          /\ Log(p)[2].req = "refresh"
          /\ Log(p)[2].code = "pending"
          /\ proc[p].pre_cams # <<>>
          /\ proc[p].pre_ts # 0
          /\ proc[p].now - proc[p].pre_ts >= CACHE_TTL
    /\ Log("w1")[1].tok = Log("w2")[1].tok
    /\ Log("w1")[2].tok = Log("w2")[2].tok
    /\ proc["w1"].pre_cams = proc["w2"].pre_cams
    /\ proc["w1"].pre_ts = proc["w2"].pre_ts

\* C18: once no refresh is in progress, the access token and the refresh
\* token of the credential come from the same refresh response (the vendor
\* issues pair k as access token k and refresh token k, and the loaded
\* credential is pair 1), and the token file holds that credential.
C18_TokensFromOneResponse ==
    (creds # None /\ \A p \in Procs : ~RefreshInProgress(p)) =>
        /\ creds[1].access_token = creds[1].refresh_token
        /\ Persisted

\* Process p stores the list of its listing in this step (lines 203-204).
StoresList(p) ==
    /\ proc[p].op = "fetch_cameras"
    /\ proc[p].pc = "wait"
    /\ proc'[p].pc = "ret"
    /\ proc'[p].res.kind = "ok"

\* C19: the cache is never rolled back.  _cameras_ts decreases only when it
\* is set to 0 by an invalidation; the list is stored only by a fetch that
\* started no earlier than the fetch whose list is cached; and a fetch that
\* stores its list over an invalidated cache started after the invalidation
\* (it found _cameras_ts = 0 on entry).
C19_CacheNeverRolledBack ==
    [][/\ cameras_ts' < cameras_ts => cameras_ts' = 0
       /\ \A p \in Procs :
             StoresList(p) =>
                 /\ proc[p].now >= cameras_ts
                 /\ cameras_ts = 0 => proc[p].pre_ts = 0]_vars


=============================================================================
